---- MODULE Spec2Model ----
(***************************************************************************)
(* The batch dispatch and error translation layer of OpenAssetIO's         *)
(* hostApi::Manager: the callback forms and the exception/variant policy   *)
(* wrappers of Manager.cpp, the wrappers of ManagerConveniences.cpp, the   *)
(* conversion of a BatchElementError into an exception, and the exception  *)
(* message formatter.                                                      *)
(*                                                                         *)
(* C++ vectors are functions over 0..n-1 (the source's indices are kept),  *)
(* a std::optional<T> is a sequence of length at most one.                 *)
(***************************************************************************)
EXTENDS Integers, Sequences, FiniteSets, TLC

VARIABLES
  pc,               \* "idle" | "plugin" | "returned" | "thrown" | "probe" | "done"
  call,             \* the host's call: [impl, op, policy, arity, access], or NoCall
  entityReferences, \* the entity reference list handed to the callback form
  traitsDatas,      \* the per-element traits data / hint list handed to it
  result,           \* the wrapper's result slots
  exc,              \* the exception in flight, <<>> or <<e>>
  calls,            \* callbacks the plugin has invoked so far, in invocation order
  forwarded,        \* callbacks that reached the host's own callbacks (callback form)
  pluginCalls,      \* invocations of the ManagerInterface method
  pluginArguments,  \* what the ManagerInterface method was invoked with, <<>> or <<args>>
  probe,            \* input of a pure function under test
  out,              \* its output
  managerInterface_,       \* the plugin behind the Manager
  entityReferencePrefix_,  \* Manager::entityReferencePrefix_, <<>> or <<prefix>>
  logged,                  \* messages the last Manager call sent to the logger
  pagerInterface_,         \* the plugin's paging backend behind an EntityReferencePager
  pagerCalls,              \* the calls a host made on the pager, with what each returned
  contexts,                \* the Context objects a host holds, in the order they were made
  traitsDataObjects        \* the TraitsData objects behind the contexts' locale pointers

vars == <<pc, call, entityReferences, traitsDatas, result, exc, calls, forwarded,
          pluginCalls, pluginArguments, probe, out, managerInterface_, entityReferencePrefix_, logged,
          pagerInterface_, pagerCalls, contexts, traitsDataObjects>>

batchVars == <<call, entityReferences, traitsDatas, result, exc, calls, forwarded,
               pluginCalls, pluginArguments>>

\* The state of the Manager's other services, untouched by a batch call.
managerVars == <<managerInterface_, entityReferencePrefix_, logged>>
pagerVars == <<pagerInterface_, pagerCalls>>
contextVars == <<contexts, traitsDataObjects>>
serviceVars == <<managerVars, pagerVars, contextVars>>

ManagerIdle ==
  /\ managerInterface_ = <<>>
  /\ entityReferencePrefix_ = <<>>
  /\ logged = <<>>

PagerIdle ==
  /\ pagerInterface_ = <<>>
  /\ pagerCalls = <<>>

ContextIdle ==
  /\ contexts = <<>>
  /\ traitsDataObjects = <<>>

ServiceIdle == ManagerIdle /\ PagerIdle /\ ContextIdle

(***************************************************************************)
(* Bounds                                                                  *)
(***************************************************************************)
\* Largest batch (number of inputs of a plural call) and largest index
\* handed to the message formatter.
MaxN == 2

\* Longest string given to the entity reference functions, and longest prefix.
MaxLen == 2

\* Most calls a host makes on one pager.
MaxPagerCalls == 3

\* Most contexts a host holds at once.
MaxContexts == 2

\* Largest page size a host asks a paged relationship query for.
MaxPageSize == 2

(***************************************************************************)
(* Data                                                                    *)
(***************************************************************************)
None == <<>>
Some(x) == <<x>>

\* The host session a Manager (and a pager) holds and hands to the plugin.
hostSession_ == "hostSession"

\* BatchElementError::ErrorCode, as enumerated by throwFromBatchElementError.
ErrorCodes ==
  {"kUnknown", "kInvalidEntityReference", "kMalformedEntityReference",
   "kEntityAccessError", "kEntityResolutionError", "kInvalidTraitsData",
   "kInvalidPreflightHint", "kInvalidTraitSet"}

\* A value of the enumeration's underlying type that is no enumerator
\* (static_cast<ErrorCode>(n)): what the code after the switch is there for.
\* It is written as its decimal value, which is what std::to_string gives for it.
InvalidCode == "99"

AllCodes == ErrorCodes \cup {InvalidCode}

\* access::kAccessNames, indexed by the access enumerations' shared values.
kAccessNames == <<"read", "write", "createRelated", "unknown">>

Accesses == 0 .. (Len(kAccessNames) - 1)

\* Messages a plugin puts into a BatchElementError.
Messages == {"", "Error Message"}

\* The entity reference / traits data at position i of the host's lists.
RefAt(i) == "ref" \o ToString(i)
DataAt(i) == "data" \o ToString(i)

(***************************************************************************)
(* Exception message formatter (exceptionMessages)                         *)
(***************************************************************************)
errorCodeName(code) ==
  CASE code = "kUnknown" -> "unknown"
    [] code = "kInvalidEntityReference" -> "invalidEntityReference"
    [] code = "kMalformedEntityReference" -> "malformedEntityReference"
    [] code = "kEntityAccessError" -> "entityAccessError"
    [] code = "kEntityResolutionError" -> "entityResolutionError"
    [] code = "kInvalidPreflightHint" -> "invalidPreflightHint"
    [] code = "kInvalidTraitSet" -> "invalidTraitSet"
    [] OTHER -> "Unknown ErrorCode"

\* Mutant: the access and entity segments swapped.
createBatchElementExceptionMessage_Swapped(err, index, entityReference, access) ==
  errorCodeName(err.code) \o ":"
    \o (IF err.message = "" THEN "" ELSE " " \o err.message)
    \o " [index=" \o ToString(index) \o "]"
    \o (IF entityReference # None THEN " [entity=" \o entityReference[1] \o "]" ELSE "")
    \o (IF access # None THEN " [access=" \o kAccessNames[access[1] + 1] \o "]" ELSE "")

createBatchElementExceptionMessage(err, index, entityReference, access) ==
  errorCodeName(err.code) \o ":"
    \o (IF err.message = "" THEN "" ELSE " " \o err.message)
    \o " [index=" \o ToString(index) \o "]"
    \o (IF access # None THEN " [access=" \o kAccessNames[access[1] + 1] \o "]" ELSE "")
    \o (IF entityReference # None THEN " [entity=" \o entityReference[1] \o "]" ELSE "")

(***************************************************************************)
(* Exceptions (errors/exceptions)                                          *)
(***************************************************************************)
Exception(kind, message, index, error, entityReference, traitsData, traitSet) ==
  [kind |-> kind, message |-> message, index |-> index, error |-> error,
   entityReference |-> entityReference, traitsData |-> traitsData,
   traitSet |-> traitSet]

\* InputValidationException: a message and nothing else.
InputValidationException(message) ==
  [kind |-> "InputValidationException", message |-> message]

\* BatchElementException(idx, err): the message is the error's message.
BatchElementException(kind, idx, err) ==
  Exception(kind, err.message, idx, err, None, None, None)

\* BatchElementException(idx, err, msg), as the convenience wrappers throw it.
BatchElementExceptionWithMessage(idx, err, msg) ==
  Exception("BatchElementException", msg, idx, err, None, None, None)

\* Mutant: the entity reference is left out of the message.
constructErrorMessage_NoReference(batchElementErrorMessage, maybeEntityReference) ==
  batchElementErrorMessage

constructErrorMessage(batchElementErrorMessage, maybeEntityReference) ==
  IF maybeEntityReference # None
    THEN batchElementErrorMessage \o " [" \o maybeEntityReference[1] \o "]"
    ELSE batchElementErrorMessage

BatchElementEntityReferenceException(kind, idx, err, causedByEntityReference) ==
  Exception(kind, constructErrorMessage(err.message, causedByEntityReference), idx, err,
            causedByEntityReference, None, None)

EntityAccessErrorBatchElementException(idx, err, causedByEntityReference) ==
  Exception("EntityAccessErrorBatchElementException",
            constructErrorMessage(err.message, causedByEntityReference), idx, err,
            causedByEntityReference, None, None)

InvalidTraitsDataBatchElementException(kind, idx, err, causedByEntityReference, causedByTraitsData) ==
  Exception(kind, constructErrorMessage(err.message, causedByEntityReference), idx, err,
            causedByEntityReference, causedByTraitsData, None)

InvalidTraitSetBatchElementException(idx, err, causedByEntityReference, causedByTraitSet) ==
  Exception("InvalidTraitSetBatchElementException",
            constructErrorMessage(err.message, causedByEntityReference), idx, err,
            causedByEntityReference, None, causedByTraitSet)

\* struct BatchElementExceptionData: all optional, default absent.
BatchElementExceptionData(entityRef, traitsData, traitSet) ==
  [entityRef |-> entityRef, traitsData |-> traitsData, traitSet |-> traitSet]

\* Mutant: a code that is no enumerator is thrown as it came, unannotated.
throwFromBatchElementError_Unannotated(index, error, exceptionData) ==
  BatchElementException("UnknownBatchElementException", index, error)

\* The exception throwFromBatchElementError throws (it never returns).
throwFromBatchElementError(index, error, exceptionData) ==
  CASE error.code = "kUnknown" ->
         BatchElementException("UnknownBatchElementException", index, error)
    [] error.code = "kInvalidEntityReference" ->
         BatchElementEntityReferenceException(
           "InvalidEntityReferenceBatchElementException", index, error,
           exceptionData.entityRef)
    [] error.code = "kMalformedEntityReference" ->
         BatchElementEntityReferenceException(
           "MalformedEntityReferenceBatchElementException", index, error,
           exceptionData.entityRef)
    [] error.code = "kEntityAccessError" ->
         EntityAccessErrorBatchElementException(index, error, exceptionData.entityRef)
    [] error.code = "kEntityResolutionError" ->
         BatchElementEntityReferenceException(
           "EntityResolutionErrorBatchElementException", index, error,
           exceptionData.entityRef)
    [] error.code = "kInvalidTraitsData" ->
         InvalidTraitsDataBatchElementException(
           "InvalidTraitsDataBatchElementException", index, error,
           exceptionData.entityRef, exceptionData.traitsData)
    [] error.code = "kInvalidPreflightHint" ->
         InvalidTraitsDataBatchElementException(
           "InvalidPreflightHintBatchElementException", index, error,
           exceptionData.entityRef, exceptionData.traitsData)
    [] error.code = "kInvalidTraitSet" ->
         InvalidTraitSetBatchElementException(index, error, exceptionData.entityRef,
                                              exceptionData.traitSet)
    [] OTHER ->
         BatchElementException(
           "UnknownBatchElementException", index,
           [error EXCEPT !.message = "Invalid BatchElementError. Code: " \o error.code
                                       \o " Message: " \o error.message])

(***************************************************************************)
(* Inputs and plugin behaviour                                             *)
(***************************************************************************)
\* The input std::vectors of a call: n entity references, k traits datas.
EntityReferences(n) == [i \in 0 .. (n - 1) |-> RefAt(i)]
TraitsDatas(n) == [i \in 0 .. (n - 1) |-> DataAt(i)]
Size(v) == Cardinality(DOMAIN v)

\* The trait set a host asks resolve for.
RequestedTraitSet == {"trait1", "trait2"}

\* Values a plugin hands to a success callback, and errors to an error callback.
Values == {"valA", "valB"}
PluginErrors == [code : AllCodes, message : {"Error Message"}]

ManagerOps == {"resolve", "preflight", "register"}

\* The operations whose callback form is in Manager.cpp.  The list a
\* defaultEntityReference call is batched over, its trait sets, is held where
\* the other operations hold their traits datas.
CallbackOps ==
  ManagerOps \cup {"entityExists", "defaultEntityReference", "getWithRelationship",
                   "getWithRelationships"}
ConvenienceOps ==
  ManagerOps \cup {"entityTraits", "getWithRelationship", "getWithRelationships"}

\* std::variant<BatchElementError, T>
Err(error) == [alt |-> "error", value |-> error]
Ok(value) == [alt |-> "success", value |-> value]

\* A value-initialised BatchElementError: code 0, which is no enumerator, and
\* an empty message; the first alternative of a default-constructed variant.
DefaultVariant == Err([code |-> "0", message |-> ""])

\* What resize() fills an exception-policy result with: a null TraitsDataPtr or
\* pager, EntityReference{""}, an empty TraitSet.
DefaultValue(op) ==
  CASE op \in {"resolve", "getWithRelationship", "getWithRelationships"} -> "nullptr"
    [] op \in {"preflight", "register"} -> ""
    [] op = "entityTraits" -> "{}"

(***************************************************************************)
(* Callback forms (Manager.cpp)                                            *)
(***************************************************************************)
\* Mutant: no length check.
preflightValidation_None(entityRefs, traitsHints) == None

preflightValidation(entityRefs, traitsHints) ==
  IF Size(entityRefs) # Size(traitsHints)
    THEN Some(InputValidationException(
           "Parameter lists must be of the same length: " \o ToString(Size(entityRefs))
             \o " entity references vs. " \o ToString(Size(traitsHints))
             \o " traits hints."))
    ELSE None

\* Mutant: register_ leaves lists of different lengths to the plugin.
registerValidation_None(entityRefs, entityTraitsDatas) == None

registerValidation(entityRefs, entityTraitsDatas) ==
  IF Size(entityRefs) # Size(entityTraitsDatas)
    THEN Some(InputValidationException(
           "Parameter lists must be of the same length: " \o ToString(Size(entityRefs))
             \o " entity references vs. " \o ToString(Size(entityTraitsDatas))
             \o " traits datas."))
    ELSE None

\* What the callback form of op throws before it reaches the plugin, if anything.
CallbackFormValidation(op, entityRefs, datas) ==
  CASE op = "preflight" -> preflightValidation(entityRefs, datas)
    [] op = "register" -> registerValidation(entityRefs, datas)
    [] OTHER -> None

\* The number of elements the plugin is asked for.
BatchSize(op, entityRefs, datas) ==
  IF op \in {"getWithRelationships", "getWithRelationshipsPaged", "defaultEntityReference"}
    THEN Size(datas)
    ELSE Size(entityRefs)

\* Mutant: the entity references reach the plugin in reverse order.
PluginArguments_Reversed(op, entityRefs, datas, traitSet, access) ==
  [method |-> op,
   entityReferences |->
     [i \in DOMAIN entityRefs |-> entityRefs[Size(entityRefs) - 1 - i]],
   traitsDatas |-> datas,
   traitSet |-> IF op \in {"resolve", "getWithRelationship", "getWithRelationships"}
                  THEN Some(traitSet) ELSE None,
   access |-> IF op = "entityExists" THEN None ELSE Some(access),
   hostSession |-> hostSession_]

\* What a callback form hands to the ManagerInterface method of the same name:
\* its own arguments, and the host session.
PluginArguments(op, entityRefs, datas, traitSet, access) ==
  [method |-> op,
   entityReferences |-> entityRefs,
   traitsDatas |-> datas,
   traitSet |-> IF op \in {"resolve", "getWithRelationship", "getWithRelationships"}
                  THEN Some(traitSet) ELSE None,
   access |-> IF op = "entityExists" THEN None ELSE Some(access),
   hostSession |-> hostSession_]

(***************************************************************************)
(* Policy wrappers: result containers and callbacks                        *)
(***************************************************************************)
InitialResult(impl, op, policy, arity, size) ==
  CASE policy = "callback" -> None
    [] policy = "exception" /\ arity = "singular" -> DefaultValue(op)
    [] policy = "exception" /\ arity = "plural" ->
         [i \in 0 .. (size - 1) |-> DefaultValue(op)]
    [] policy = "variant" /\ arity = "singular" -> DefaultVariant
    [] policy = "variant" /\ arity = "plural" ->
         IF impl = "Conveniences" /\ op = "getWithRelationship"
           THEN [i \in 0 .. (size - 1) |-> Ok("nullptr")]
           ELSE [i \in 0 .. (size - 1) |-> DefaultVariant]

\* Mutant: the value goes to slot 0 whatever the index.
PluralExceptionSuccess_Slot0(res, index, value) == [res EXCEPT ![0] = value]

\* [&result](index, data) { result[index] = std::move(data); }
PluralExceptionSuccess(res, index, value) == [res EXCEPT ![index] = value]

\* Mutant: the singular success callback drops the value.
SingularExceptionSuccess_Dropped(res, index, value) == res

\* [&result](index, data) { result = std::move(data); }
SingularExceptionSuccess(res, index, value) == value

\* Mutant: the value is appended after the last slot as well.
PluralVariantSuccess_Appended(res, index, value) ==
  [i \in 0 .. Cardinality(DOMAIN res) |->
     IF i = index \/ i = Cardinality(DOMAIN res) THEN Ok(value) ELSE res[i]]

\* Mutant: an error is stored as a success value.
PluralVariantError_AsSuccess(res, index, error) ==
  [res EXCEPT ![index] = Ok(error.message)]

PluralVariantSuccess(res, index, value) == [res EXCEPT ![index] = Ok(value)]
PluralVariantError(res, index, error) == [res EXCEPT ![index] = Err(error)]
SingularVariantSuccess(res, index, value) == Ok(value)
SingularVariantError(res, index, error) == Err(error)

\* Mutant: the data of the first element is packed whatever the index.
ManagerExceptionData_First(op, arity, entityRefs, datas, traitSet, index) ==
  BatchElementExceptionData(
    Some(entityRefs[0]),
    IF op \in {"preflight", "register"} THEN Some(datas[0]) ELSE None,
    IF op = "resolve" THEN Some(traitSet) ELSE None)

\* The data the Manager.cpp error callbacks pack for throwFromBatchElementError.
ManagerExceptionData(op, arity, entityRefs, datas, traitSet, index) ==
  BatchElementExceptionData(
    Some(IF arity = "plural" THEN entityRefs[index] ELSE entityRefs[0]),
    IF op \in {"preflight", "register"}
      THEN Some(IF arity = "plural" THEN datas[index] ELSE datas[0])
      ELSE None,
    IF op = "resolve" THEN Some(traitSet) ELSE None)

\* Mutant: the exception is built for element 0.
ManagerErrorCallback_Index0(op, arity, entityRefs, datas, traitSet, index, error) ==
  throwFromBatchElementError(
    0, error, ManagerExceptionData(op, arity, entityRefs, datas, traitSet, 0))

\* The exception an error callback of a Manager.cpp exception wrapper throws.
ManagerErrorCallback(op, arity, entityRefs, datas, traitSet, index, error) ==
  throwFromBatchElementError(
    index, error, ManagerExceptionData(op, arity, entityRefs, datas, traitSet, index))

\* The exception an error callback of a ManagerConveniences.cpp exception
\* wrapper throws.
ConveniencesErrorCallback(op, arity, entityRefs, access, index, error) ==
  BatchElementExceptionWithMessage(
    index, error,
    createBatchElementExceptionMessage(
      error, index,
      Some(IF arity = "plural" /\ op # "getWithRelationships"
             THEN entityRefs[index] ELSE entityRefs[0]),
      Some(access)))

\* Mutant: the error callback records the exception and lets the plugin go on.
AfterErrorCallback_Continue == "plugin"

\* Control after an exception-policy error callback: the throw unwinds through
\* the plugin's frame and out of the wrapper.
AfterErrorCallback == "thrown"

(***************************************************************************)
(* One host call: entry into a wrapper or callback form, the callbacks the *)
(* plugin invokes while it runs, and its return.  Under a wrapper the      *)
(* plugin invokes at most one callback per index of its batch (it may      *)
(* leave indices out); under a callback form it may also repeat an index.  *)
(* It lets an exception thrown by a callback propagate.                    *)
(***************************************************************************)
theCall == call[1]
thrown == exc[1]

Callback(kind, index, payload) == [kind |-> kind, index |-> index, payload |-> payload]

\* The forms of each operation: callback forms exist in Manager.cpp only and
\* take lists.
CallTypes ==
  [impl : {"Manager"}, op : CallbackOps, policy : {"callback"}, arity : {"plural"}]
    \cup [impl : {"Manager"}, op : ManagerOps, policy : {"exception", "variant"},
          arity : {"singular", "plural"}]
    \cup [impl : {"Conveniences"}, op : ConvenienceOps,
          policy : {"exception", "variant"}, arity : {"singular", "plural"}]

\* <<number of entity references, number of traits datas>> a form can be given.
Shapes(op, arity) ==
  IF arity = "singular"
    THEN {<<1, IF op \in {"resolve", "entityTraits"} THEN 0 ELSE 1>>}
    ELSE CASE op \in {"resolve", "entityTraits", "entityExists"} ->
                {<<n, 0>> : n \in 0 .. MaxN}
           [] op = "defaultEntityReference" -> {<<0, k>> : k \in 0 .. MaxN}
           [] op \in {"preflight", "register"} -> (0 .. MaxN) \X (0 .. MaxN)
           [] op = "getWithRelationship" -> {<<n, 1>> : n \in 0 .. MaxN}
           [] op = "getWithRelationships" -> {<<1, k>> : k \in 0 .. MaxN}

Init ==
  /\ pc = "idle"
  /\ call = None
  /\ entityReferences = <<>>
  /\ traitsDatas = <<>>
  /\ result = None
  /\ exc = None
  /\ calls = <<>>
  /\ forwarded = <<>>
  /\ pluginCalls = 0
  /\ pluginArguments = None
  /\ probe = None
  /\ out = None
  /\ ServiceIdle

\* Mutant: a call without an error-policy tag runs the variant overload.
DefaultPolicy_Variant == "variant"

\* The overload a call without an error-policy tag selects.  The declarations
\* of the overloads (Manager.hpp) are not among the sources; the tests call
\* the wrappers without a tag and expect the exception behaviour.
DefaultPolicy == "exception"

\* The error-policy tags a host can write to reach a form; "default" is the
\* call that gives none.
Tags(policy) == IF policy = "exception" THEN {"exception", "default"} ELSE {policy}

ErrorPolicy(tag) == IF tag = "default" THEN DefaultPolicy ELSE tag

\* The host calls one form.  A wrapper sizes its result container and calls
\* the callback form, which validates the lists and then invokes the plugin.
HostCall ==
  /\ pc = "idle"
  /\ \E t \in CallTypes, access \in Accesses :
       \E shape \in Shapes(t.op, t.arity), tag \in Tags(t.policy) :
         LET refs == EntityReferences(shape[1])
             datas == TraitsDatas(shape[2])
             invalid == CallbackFormValidation(t.op, refs, datas)
         IN /\ call' = Some([impl |-> t.impl, op |-> t.op, tag |-> tag,
                             policy |-> ErrorPolicy(tag),
                             arity |-> t.arity, access |-> access,
                             traitSet |-> RequestedTraitSet])
            /\ entityReferences' = refs
            /\ traitsDatas' = datas
            /\ result' = InitialResult(t.impl, t.op, ErrorPolicy(tag), t.arity,
                                       BatchSize(t.op, refs, datas))
            /\ exc' = invalid
            /\ pc' = IF invalid # None THEN "thrown" ELSE "plugin"
            /\ pluginCalls' = IF invalid # None THEN 0 ELSE 1
            /\ pluginArguments' =
                 IF invalid # None
                   THEN None
                   ELSE Some(PluginArguments(t.op, refs, datas, RequestedTraitSet, access))
  /\ calls' = <<>>
  /\ forwarded' = <<>>
  /\ UNCHANGED <<probe, out, serviceVars>>

\* Indices of the batch the plugin has not yet invoked a callback for.
Pending ==
  {i \in 0 .. (BatchSize(theCall.op, entityReferences, traitsDatas) - 1) :
     \A j \in 1 .. Len(calls) : calls[j].index # i}

InPlugin(policy) == pc = "plugin" /\ theCall.policy = policy

\* Indices the plugin may pass to a callback of a callback form: any index of
\* the batch, also one it has used before, for as many callbacks as the batch
\* has elements.
Callable ==
  {i \in 0 .. (BatchSize(theCall.op, entityReferences, traitsDatas) - 1) :
     Len(calls) < BatchSize(theCall.op, entityReferences, traitsDatas)}

\* Callback form: the plugin holds the host's own callbacks.
CallbackFormSuccess ==
  /\ InPlugin("callback")
  /\ \E i \in Callable, v \in Values :
       /\ calls' = Append(calls, Callback("success", i, v))
       /\ forwarded' = Append(forwarded, Callback("success", i, v))
  /\ UNCHANGED <<pc, call, entityReferences, traitsDatas, result, exc, pluginCalls, pluginArguments,
                 probe, out, serviceVars>>

CallbackFormError ==
  /\ InPlugin("callback")
  /\ \E i \in Callable, e \in PluginErrors :
       /\ calls' = Append(calls, Callback("error", i, e))
       /\ forwarded' = Append(forwarded, Callback("error", i, e))
  /\ UNCHANGED <<pc, call, entityReferences, traitsDatas, result, exc, pluginCalls, pluginArguments,
                 probe, out, serviceVars>>

ExceptionSuccess ==
  /\ InPlugin("exception")
  /\ \E i \in Pending, v \in Values :
       /\ calls' = Append(calls, Callback("success", i, v))
       /\ result' = IF theCall.arity = "plural"
                      THEN PluralExceptionSuccess(result, i, v)
                      ELSE SingularExceptionSuccess(result, i, v)
  /\ UNCHANGED <<pc, call, entityReferences, traitsDatas, exc, forwarded, pluginCalls, pluginArguments,
                 probe, out, serviceVars>>

ExceptionError ==
  /\ InPlugin("exception")
  /\ \E i \in Pending, e \in PluginErrors :
       /\ calls' = Append(calls, Callback("error", i, e))
       /\ exc' = Some(IF theCall.impl = "Manager"
                        THEN ManagerErrorCallback(theCall.op, theCall.arity,
                                                  entityReferences, traitsDatas,
                                                  theCall.traitSet, i, e)
                        ELSE ConveniencesErrorCallback(theCall.op, theCall.arity,
                                                       entityReferences,
                                                       theCall.access, i, e))
  /\ pc' = AfterErrorCallback
  /\ UNCHANGED <<call, entityReferences, traitsDatas, result, forwarded, pluginCalls, pluginArguments,
                 probe, out, serviceVars>>

VariantSuccess ==
  /\ InPlugin("variant")
  /\ \E i \in Pending, v \in Values :
       /\ calls' = Append(calls, Callback("success", i, v))
       /\ result' = IF theCall.arity = "plural"
                      THEN PluralVariantSuccess(result, i, v)
                      ELSE SingularVariantSuccess(result, i, v)
  /\ UNCHANGED <<pc, call, entityReferences, traitsDatas, exc, forwarded, pluginCalls, pluginArguments,
                 probe, out, serviceVars>>

VariantError ==
  /\ InPlugin("variant")
  /\ \E i \in Pending, e \in PluginErrors :
       /\ calls' = Append(calls, Callback("error", i, e))
       /\ result' = IF theCall.arity = "plural"
                      THEN PluralVariantError(result, i, e)
                      ELSE SingularVariantError(result, i, e)
  /\ UNCHANGED <<pc, call, entityReferences, traitsDatas, exc, forwarded, pluginCalls, pluginArguments,
                 probe, out, serviceVars>>

\* The plugin's method returns, and with it the callback form and the wrapper.
PluginReturn ==
  /\ pc = "plugin"
  /\ pc' = "returned"
  /\ UNCHANGED <<call, entityReferences, traitsDatas, result, exc, calls, forwarded,
                 pluginCalls, pluginArguments, probe, out, serviceVars>>

Next ==
  \/ HostCall
  \/ CallbackFormSuccess
  \/ CallbackFormError
  \/ ExceptionSuccess
  \/ ExceptionError
  \/ VariantSuccess
  \/ VariantError
  \/ PluginReturn

Spec == Init /\ [][Next]_vars

(***************************************************************************)
(* The exception hierarchy.  The sources hold two versions of the header   *)
(* that declares it: the one in which BatchElementException derives from   *)
(* OpenAssetIOException (part_007) and the one in which it derives from    *)
(* std::runtime_error (part_009).                                          *)
(***************************************************************************)
ExceptionHeaders == {"part_007", "part_009"}

\* The <<struct, base>> pairs each header declares.
Inherits(header) ==
  {<<"OpenAssetIOException", "std::runtime_error">>,
   <<"InputValidationException", "OpenAssetIOException">>,
   <<"ConfigurationException", "InputValidationException">>,
   <<"NotImplementedException", "OpenAssetIOException">>,
   <<"UnhandledException", "OpenAssetIOException">>,
   <<"UnknownBatchElementException", "BatchElementException">>,
   <<"EntityAccessErrorBatchElementException", "BatchElementException">>,
   <<"InvalidTraitSetBatchElementException", "BatchElementException">>}
    \cup
  IF header = "part_007"
    THEN {<<"BatchElementException", "OpenAssetIOException">>,
          <<"BatchElementEntityReferenceException", "BatchElementException">>,
          <<"InvalidEntityReferenceBatchElementException",
            "BatchElementEntityReferenceException">>,
          <<"MalformedEntityReferenceBatchElementException",
            "BatchElementEntityReferenceException">>,
          <<"EntityResolutionErrorBatchElementException",
            "BatchElementEntityReferenceException">>,
          <<"InvalidTraitsDataBatchElementException", "BatchElementException">>,
          <<"InvalidPreflightHintBatchElementException",
            "InvalidTraitsDataBatchElementException">>}
    ELSE {<<"BatchElementException", "std::runtime_error">>,
          <<"InvalidEntityReferenceBatchElementException", "BatchElementException">>,
          <<"MalformedEntityReferenceBatchElementException", "BatchElementException">>,
          <<"EntityResolutionErrorBatchElementException", "BatchElementException">>,
          <<"InvalidPreflightHintBatchElementException", "BatchElementException">>}

Declared(header) == {pair[1] : pair \in Inherits(header)}

\* std::is_base_of_v<base, derived> under a header.
RECURSIVE IsBaseOf(_, _, _)
IsBaseOf(header, base, derived) ==
  \/ derived = base
  \/ \E pair \in Inherits(header) :
       pair[1] = derived /\ IsBaseOf(header, base, pair[2])

(***************************************************************************)
(* The Python exception translators (registerNonBatchExceptions and        *)
(* registerBatchElementExceptions), in the versions of part_006 and        *)
(* part_008.  A translator rethrows the C++ exception and its catch clauses *)
(* are tried in the order written; pybind11 tries the translator that was  *)
(* registered last, the one of the batch element exceptions, first.        *)
(***************************************************************************)
Translators == {"part_006", "part_008"}

NonBatchCatchClauses ==
  <<"ConfigurationException", "InputValidationException", "NotImplementedException",
    "UnhandledException", "OpenAssetIOException">>

BatchCatchClauses ==
  <<"UnknownBatchElementException", "InvalidEntityReferenceBatchElementException",
    "MalformedEntityReferenceBatchElementException",
    "EntityAccessErrorBatchElementException",
    "EntityResolutionErrorBatchElementException",
    "InvalidPreflightHintBatchElementException", "InvalidTraitSetBatchElementException",
    "InvalidTraitsDataBatchElementException", "BatchElementEntityReferenceException",
    "BatchElementException">>

\* The first catch clause that takes an exception of a kind, <<>> if none does.
\* Both translators are written against the hierarchy of part_007.
RECURSIVE Caught(_, _)
Caught(clauses, kind) ==
  IF clauses = <<>>
    THEN None
    ELSE IF IsBaseOf("part_007", Head(clauses), kind)
           THEN Some(Head(clauses))
           ELSE Caught(Tail(clauses), kind)

\* The Python exception set for a C++ exception.  part_006 constructs the
\* Python class with (exc.what(), exc.index, exc.error, ...); part_008
\* constructs it with (exc.index, exc.error), and its Python
\* BatchElementException takes error.message as its message.
translateException(translator, exception) ==
  IF Caught(BatchCatchClauses, exception.kind) # None
    THEN [name |-> Caught(BatchCatchClauses, exception.kind)[1],
          message |-> IF translator = "part_006"
                        THEN exception.message
                        ELSE exception.error.message,
          index |-> exception.index,
          error |-> exception.error]
    ELSE [name |-> Caught(NonBatchCatchClauses, exception.kind)[1],
          message |-> exception.message]

(***************************************************************************)
(* The pure functions on their own: the formatter, the code name table and *)
(* throwFromBatchElementError, each applied to an input drawn in Init.     *)
(***************************************************************************)
ProbeInputs ==
  [error : [code : AllCodes, message : Messages],
   index : 0 .. MaxN,
   entityReference : {None, Some(RefAt(0))},
   access : {None} \cup {Some(a) : a \in Accesses},
   traitsData : {None, Some(DataAt(0))},
   traitSet : {None, Some(RequestedTraitSet)}]

InitProbe ==
  /\ pc = "probe"
  /\ probe \in ProbeInputs
  /\ out = None
  /\ call = None
  /\ entityReferences = <<>>
  /\ traitsDatas = <<>>
  /\ result = None
  /\ exc = None
  /\ calls = <<>>
  /\ forwarded = <<>>
  /\ pluginCalls = 0
  /\ pluginArguments = None
  /\ ServiceIdle

Output(fn, value) == [fn |-> fn, value |-> value]

FormatMessage ==
  /\ pc = "probe"
  /\ out' = Output("createBatchElementExceptionMessage",
                   createBatchElementExceptionMessage(
                     probe.error, probe.index, probe.entityReference, probe.access))
  /\ pc' = "done"
  /\ UNCHANGED <<batchVars, probe, serviceVars>>

NameErrorCode ==
  /\ pc = "probe"
  /\ out' = Output("errorCodeName", errorCodeName(probe.error.code))
  /\ pc' = "done"
  /\ UNCHANGED <<batchVars, probe, serviceVars>>

ThrowFromError ==
  /\ pc = "probe"
  /\ out' = Output("throwFromBatchElementError",
                   throwFromBatchElementError(
                     probe.index, probe.error,
                     BatchElementExceptionData(probe.entityReference, probe.traitsData,
                                               probe.traitSet)))
  /\ pc' = "done"
  /\ UNCHANGED <<batchVars, probe, serviceVars>>

\* What a caller in Python observes of a translation.
Translated(translator, exception) ==
  Output("translateException",
         [translator |-> translator,
          thrown |-> exception,
          python |-> translateException(translator, exception)])

\* A C++ exception of the taxonomy leaves a bound function and is translated:
\* one thrown for the error, a batch element base class thrown directly, or
\* one of the exceptions that carry a message only.
TranslateException ==
  /\ pc = "probe"
  /\ \E translator \in Translators :
       \/ out' = Translated(translator,
                            throwFromBatchElementError(
                              probe.index, probe.error,
                              BatchElementExceptionData(
                                probe.entityReference, probe.traitsData, probe.traitSet)))
       \/ \E kind \in {"BatchElementException"} :
            out' = Translated(translator,
                              BatchElementException(kind, probe.index, probe.error))
       \/ \E kind \in {"BatchElementEntityReferenceException"} :
            out' = Translated(translator,
                              BatchElementEntityReferenceException(
                                kind, probe.index, probe.error, probe.entityReference))
       \/ \E kind \in {NonBatchCatchClauses[i] : i \in DOMAIN NonBatchCatchClauses} :
            out' = Translated(translator, [kind |-> kind, message |-> probe.error.message])
  /\ pc' = "done"
  /\ UNCHANGED <<batchVars, probe, serviceVars>>

NextProbe ==
  \/ FormatMessage
  \/ NameErrorCode
  \/ ThrowFromError
  \/ TranslateException

SpecProbe == InitProbe /\ [][NextProbe]_vars

(***************************************************************************)
(* Reading the state of a call.                                            *)
(***************************************************************************)
IsForm(ops, policy, arity) ==
  /\ call # None
  /\ theCall.op \in ops
  /\ theCall.policy = policy
  /\ theCall.arity = arity

N == BatchSize(theCall.op, entityReferences, traitsDatas)

\* The callbacks the plugin invoked so far, by position in invocation order.
Invoked(kind) == {j \in 1 .. Len(calls) : calls[j].kind = kind}

\* The callback invoked for index i.
CallbackFor(i) == calls[CHOOSE j \in 1 .. Len(calls) : calls[j].index = i]

EveryIndexCalledBack == Len(calls) = N

FirstError == CHOOSE j \in Invoked("error") : \A k \in Invoked("error") : j <= k

\* What the plural variant wrapper's two lambdas make of a callback sequence.
RECURSIVE PluralVariantResult(_, _)
PluralVariantResult(res, cbs) ==
  IF cbs = <<>>
    THEN res
    ELSE PluralVariantResult(
           IF Head(cbs).kind = "success"
             THEN PluralVariantSuccess(res, Head(cbs).index, Head(cbs).payload)
             ELSE PluralVariantError(res, Head(cbs).index, Head(cbs).payload),
           Tail(cbs))

(***************************************************************************)
(* Claims                                                                  *)
(***************************************************************************)

\* C1: a plural exception-policy resolve, preflight or register whose plugin
\* invoked the success callback once for every index, in any order, and no
\* error callback, returns a sequence of length N whose element i is the value
\* delivered for index i; the plural variant wrapper given the same callback
\* sequence holds the success alternative with that same value in every slot.
C1_OrderRestored ==
  (/\ pc = "returned"
   /\ IsForm(ManagerOps, "exception", "plural")
   /\ EveryIndexCalledBack
   /\ Invoked("error") = {})
    => LET variant == PluralVariantResult(
                        InitialResult(theCall.impl, theCall.op, "variant", "plural", N), calls)
       IN /\ DOMAIN result = 0 .. (N - 1)
          /\ \A i \in 0 .. (N - 1) :
               /\ result[i] = CallbackFor(i).payload
               /\ variant[i] = Ok(result[i])

\* C1 witness: a two-element batch answered out of index order with two
\* different values.
C1_Witness ==
  /\ pc = "returned"
  /\ IsForm(ManagerOps, "exception", "plural")
  /\ N = 2
  /\ Len(calls) = 2
  /\ Invoked("error") = {}
  /\ calls[1].index = 1
  /\ calls[1].payload # calls[2].payload

\* C2: in a plural exception-policy resolve, preflight or register, once the
\* plugin has invoked an error callback the call has been terminated by it: the
\* first error callback in invocation order is the last callback invoked, and
\* the thrown exception carries that callback's index and error, whatever its
\* index and whatever was delivered before it (the error is carried whole when
\* its code is one of the enumeration; a code outside it keeps only its code).
C2_FirstErrorTerminates ==
  (IsForm(ManagerOps, "exception", "plural") /\ Invoked("error") # {})
    => /\ pc = "thrown"
       /\ FirstError = Len(calls)
       /\ thrown.index = calls[FirstError].index
       /\ thrown.error.code = calls[FirstError].payload.code
       /\ calls[FirstError].payload.code \in ErrorCodes
            => thrown.error = calls[FirstError].payload

\* C2 witness: the success for index 1 is delivered first, then the error for
\* index 0 terminates the call.
C2_Witness ==
  /\ pc = "thrown"
  /\ IsForm(ManagerOps, "exception", "plural")
  /\ Len(calls) = 2
  /\ calls[1] = Callback("success", 1, "valA")
  /\ calls[2].kind = "error"
  /\ calls[2].index = 0
  /\ thrown.index = 0
  /\ result[1] = "valA"

\* C3: in a plural exception-policy call, the step in which the plugin invokes
\* the error callback for index 1 of a multi-element batch ends in the call
\* having thrown with index 1, and no step follows a throw: no further callback
\* is recorded and no result slot is written.
C3_NothingAfterThrow ==
  [][/\ (/\ IsForm(ManagerOps, "exception", "plural")
         /\ N >= 2
         /\ Len(calls') = Len(calls) + 1
         /\ calls'[Len(calls')].kind = "error"
         /\ calls'[Len(calls')].index = 1)
          => (pc' = "thrown" /\ exc' # None /\ exc'[1].index = 1)
     /\ pc = "thrown" => UNCHANGED vars]_vars

\* C3 witness: index 1 of a two-element batch errored while index 0 was still
\* to be answered.
C3_Witness ==
  /\ pc = "thrown"
  /\ IsForm(ManagerOps, "exception", "plural")
  /\ N = 2
  /\ Len(calls) = 1
  /\ calls[1].kind = "error"
  /\ calls[1].index = 1
  /\ thrown.index = 1
  /\ 0 \in Pending

\* C4: a plural variant-policy resolve, preflight or register given lists of
\* equal length never throws, and once every index has received its one
\* callback it returns a sequence of length N whose slot i holds the error
\* alternative with the delivered error when index i's callback was the error
\* callback, and the success alternative with the delivered value otherwise.
C4_VariantHoldsEveryOutcome ==
  (/\ IsForm(ManagerOps, "variant", "plural")
   /\ (theCall.op = "resolve" \/ Size(entityReferences) = Size(traitsDatas)))
    => /\ exc = None
       /\ pc # "thrown"
       /\ (pc = "returned" /\ EveryIndexCalledBack)
            => /\ DOMAIN result = 0 .. (N - 1)
               /\ \A i \in 0 .. (N - 1) :
                    result[i] = IF CallbackFor(i).kind = "error"
                                  THEN Err(CallbackFor(i).payload)
                                  ELSE Ok(CallbackFor(i).payload)

\* C4 witness: a two-element batch in which index 1 errored first and index 0
\* then succeeded.
C4_Witness ==
  /\ pc = "returned"
  /\ IsForm(ManagerOps, "variant", "plural")
  /\ N = 2
  /\ Len(calls) = 2
  /\ calls[1].kind = "error"
  /\ calls[1].index = 1
  /\ calls[2].kind = "success"
  /\ result[1].alt = "error"
  /\ result[0].alt = "success"

\* C6: when the callback form of preflight or register is given an entity
\* reference list and a traits list of different lengths, it has thrown
\* InputValidationException, the plugin was called zero times and no success or
\* error callback was invoked.
C6_LengthMismatchBeforePlugin ==
  (/\ call # None
   /\ theCall.impl = "Manager"
   /\ theCall.op \in {"preflight", "register"}
   /\ theCall.arity = "plural"
   /\ Size(entityReferences) # Size(traitsDatas))
    => /\ pc = "thrown"
       /\ thrown.kind = "InputValidationException"
       /\ pluginCalls = 0
       /\ calls = <<>>
       /\ forwarded = <<>>

\* C6 witness: the callback form of preflight was called with two entity
\* references and one traits hint.
C6_Witness ==
  /\ pc = "thrown"
  /\ IsForm({"preflight"}, "callback", "plural")
  /\ Size(entityReferences) = 2
  /\ Size(traitsDatas) = 1
  /\ thrown.kind = "InputValidationException"

\* The error the plugin passed to the error callback that made the call throw.
ThrownFor == calls[Len(calls)]

\* The call has thrown because of a batch element (not input validation).
ElementThrown(ops) ==
  /\ call # None
  /\ theCall.policy = "exception"
  /\ theCall.op \in ops
  /\ pc = "thrown"
  /\ calls # <<>>

\* The exception kind C5 pairs with each code.
CorrespondingException(code) ==
  CASE code = "kUnknown" -> "UnknownBatchElementException"
    [] code = "kInvalidEntityReference" -> "InvalidEntityReferenceBatchElementException"
    [] code = "kMalformedEntityReference" -> "MalformedEntityReferenceBatchElementException"
    [] code = "kEntityAccessError" -> "EntityAccessErrorBatchElementException"
    [] code = "kEntityResolutionError" -> "EntityResolutionErrorBatchElementException"
    [] code = "kInvalidTraitsData" -> "InvalidTraitsDataBatchElementException"
    [] code = "kInvalidPreflightHint" -> "InvalidPreflightHintBatchElementException"
    [] code = "kInvalidTraitSet" -> "InvalidTraitSetBatchElementException"

\* C5: under the exception policy an error of each of the eight codes makes
\* the call throw the exception kind that corresponds to the code.
C5_KindCorrespondsToCode ==
  (ElementThrown(ConvenienceOps) /\ ThrownFor.payload.code \in ErrorCodes)
    => thrown.kind = CorrespondingException(ThrownFor.payload.code)

\* The codes whose exception is a BatchElementEntityReferenceException.
EntityReferenceCodes ==
  {"kInvalidEntityReference", "kMalformedEntityReference", "kEntityAccessError",
   "kEntityResolutionError"}

\* The string of the input entity reference an error for index i is about.
ReferenceOf(i) ==
  IF theCall.arity = "plural" THEN entityReferences[i] ELSE entityReferences[0]

FormatOf(name, messageSegment, n, access, entityReference) ==
  LET head == name \o ":" \o messageSegment \o " [index=" \o ToString(n) \o "]"
      accessSegment == " [access=" \o kAccessNames[access[1] + 1] \o "]"
      entitySegment == " [entity=" \o entityReference[1] \o "]"
  IN CASE access = None /\ entityReference = None -> head
       [] access # None /\ entityReference = None -> head \o accessSegment
       [] access = None /\ entityReference # None -> head \o entitySegment
       [] access # None /\ entityReference # None ->
            head \o accessSegment \o entitySegment

Formatted == pc = "done" /\ out.fn = "createBatchElementExceptionMessage"

\* C8 as stated: the formatter returns "<errorCodeName>: <message> [index=<n>]
\* [access=<name>] [entity=<ref>]" with only the access and entity segments
\* optional.
C8_FormatAsStated ==
  Formatted
    => out.value = FormatOf(errorCodeName(probe.error.code), " " \o probe.error.message,
                            probe.index, probe.access, probe.entityReference)

\* C8 amended: as stated, and the " <message>" segment too is absent when the
\* error's message is empty, so that "<errorCodeName>:" is followed directly by
\* " [index=<n>]".
C8_FormatOmitsEmptyMessage ==
  Formatted
    => out.value = FormatOf(errorCodeName(probe.error.code),
                            IF probe.error.message = ""
                              THEN "" ELSE " " \o probe.error.message,
                            probe.index, probe.access, probe.entityReference)

\* C8 witness: an error with an empty message formatted with both an access
\* and an entity reference.
C8_Witness ==
  /\ Formatted
  /\ probe.error = [code |-> "kEntityAccessError", message |-> ""]
  /\ probe.index = 2
  /\ probe.access = Some(0)
  /\ probe.entityReference # None
  /\ out.value = "entityAccessError: [index=2] [access=read] [entity=ref0]"

\* C9: errorCodeName gives each of the eight codes a name of its own: not the
\* name given to a value outside the enumeration, and not the name of any
\* other code.
C9_EveryCodeHasItsOwnName ==
  (pc = "done" /\ out.fn = "errorCodeName" /\ probe.error.code \in ErrorCodes)
    => /\ out.value # errorCodeName(InvalidCode)
       /\ \A other \in ErrorCodes \ {probe.error.code} : errorCodeName(other) # out.value

\* C10: the message of every exception an exception-policy wrapper raises for
\* a batch element is the formatter's output for the error, its index, and the
\* call's access and the element's entity reference where available.
C10_MessageIsFormatterOutput ==
  ElementThrown(ConvenienceOps)
    => \E access \in {None, Some(theCall.access)},
          entityReference \in {None, Some(entityReferences[0])}
                                \cup {Some(entityReferences[i]) : i \in {ThrownFor.index}
                                                                      \cap DOMAIN entityReferences} :
         thrown.message = createBatchElementExceptionMessage(
                            ThrownFor.payload, ThrownFor.index, entityReference, access)

(***************************************************************************)
(* Entity reference strings (Manager.cpp): initialize extracts the prefix  *)
(* from the plugin's info dictionary; isEntityReferenceString,             *)
(* createEntityReference and createEntityReferenceIfValid use it.  A Str   *)
(* is a sequence of characters.                                            *)
(***************************************************************************)
Chars == {"a", "b"}

Strs == UNION {[1 .. n -> Chars] : n \in 0 .. MaxLen}

\* Str::npos, the "not found" result of rfind.
npos == None

\* Str::rfind(str, pos): the last position p <= pos (from 0) at which str
\* occurs in s, or npos.
rfind(s, str, pos) ==
  LET found == {p \in 0 .. pos :
                  /\ p + Len(str) <= Len(s)
                  /\ SubSeq(s, p + 1, p + Len(str)) = str}
  IN IF found = {} THEN npos ELSE Some(CHOOSE p \in found : \A q \in found : q <= p)

\* The key of the info dictionary that holds the prefix.
kInfoKey_EntityReferencesMatchPrefix == "kInfoKey_EntityReferencesMatchPrefix"

\* An InfoDictionary value: the alternative of the variant it holds, and the
\* value (a Str as it is, a value of another type written out).
InfoValue(type, value) == [type |-> type, value |-> value]

\* The info dictionaries a plugin may return, as far as the prefix key goes:
\* without the key, with a string under it, with a value of another type.
InfoDictionaries ==
  {<<>>}
    \cup {[k \in {kInfoKey_EntityReferencesMatchPrefix} |-> InfoValue("Str", prefix)] :
            prefix \in Strs}
    \cup {[k \in {kInfoKey_EntityReferencesMatchPrefix} |-> v] :
            v \in {InfoValue("Int", <<"1">>), InfoValue("Bool", <<"true">>)}}

\* The plugin's isEntityReferenceString: the strings it answers true for are
\* the ones beginning with a string of its own, or none.
PluginPredicates == {{s \in Strs : rfind(s, own, 0) # npos} : own \in Strs} \cup {{}}

\* A plugin: the info dictionary it returns and its isEntityReferenceString.
ManagerInterfaces == [info : InfoDictionaries, isEntityReferenceString : PluginPredicates]

Logged(severity, message) == [severity |-> severity, message |-> message]

\* Mutant: whatever is under the key becomes the prefix.
entityReferencePrefixFromInfo_AnyType(info) ==
  IF kInfoKey_EntityReferencesMatchPrefix \in DOMAIN info
    THEN [prefix |-> Some(info[kInfoKey_EntityReferencesMatchPrefix].value),
          logged |-> <<>>]
    ELSE [prefix |-> None, logged |-> <<>>]

\* entityReferencePrefixFromInfo: the prefix, and what is logged on the way.
entityReferencePrefixFromInfo(info) ==
  IF kInfoKey_EntityReferencesMatchPrefix \in DOMAIN info
    THEN IF info[kInfoKey_EntityReferencesMatchPrefix].type = "Str"
           THEN [prefix |-> Some(info[kInfoKey_EntityReferencesMatchPrefix].value),
                 logged |-> <<Logged("debugApi", "Entity reference prefix provided")>>]
           ELSE [prefix |-> None,
                 logged |-> <<Logged("warning",
                   "Entity reference prefix given but is an invalid type: should be a string.")>>]
    ELSE [prefix |-> None, logged |-> <<>>]

\* The result of a Manager call: the value returned or the exception thrown,
\* and the plugin methods called on the way.
Returned(value, pluginCalled) == [returned |-> Some(value), exception |-> None,
                                  pluginCalled |-> pluginCalled]
Threw(exception, pluginCalled) == [returned |-> None, exception |-> Some(exception),
                                   pluginCalled |-> pluginCalled]

\* Mutant: the plugin is asked whatever the prefix.
isEntityReferenceString_AskPlugin(prefix, plugin, someString) ==
  Returned(someString \in plugin.isEntityReferenceString, <<"isEntityReferenceString">>)

isEntityReferenceString(prefix, plugin, someString) ==
  IF prefix = None
    THEN Returned(someString \in plugin.isEntityReferenceString,
                  <<"isEntityReferenceString">>)
    ELSE Returned(rfind(someString, prefix[1], 0) # npos, <<>>)

kCreateEntityReferenceErrorMessage == <<"Invalid entity reference: ">>

EntityReference(entityReferenceString) == [toString |-> entityReferenceString]

\* Mutant: the string is not validated.
createEntityReference_Unchecked(prefix, plugin, entityReferenceString) ==
  Returned(EntityReference(entityReferenceString), <<>>)

createEntityReference(prefix, plugin, entityReferenceString) ==
  LET valid == isEntityReferenceString(prefix, plugin, entityReferenceString)
  IN IF ~valid.returned[1]
       THEN Threw(InputValidationException(
                    kCreateEntityReferenceErrorMessage \o entityReferenceString),
                  valid.pluginCalled)
       ELSE Returned(EntityReference(entityReferenceString), valid.pluginCalled)

\* Mutant: an invalid string raises as in createEntityReference.
createEntityReferenceIfValid_Throwing(prefix, plugin, entityReferenceString) ==
  createEntityReference(prefix, plugin, entityReferenceString)

\* The std::optional<EntityReference> is the returned value: <<>> or <<ref>>.
createEntityReferenceIfValid(prefix, plugin, entityReferenceString) ==
  LET valid == isEntityReferenceString(prefix, plugin, entityReferenceString)
  IN IF ~valid.returned[1]
       THEN Returned(None, valid.pluginCalled)
       ELSE Returned(Some(EntityReference(entityReferenceString)), valid.pluginCalled)

BatchIdle ==
  /\ call = None
  /\ entityReferences = <<>>
  /\ traitsDatas = <<>>
  /\ result = None
  /\ exc = None
  /\ calls = <<>>
  /\ forwarded = <<>>
  /\ pluginCalls = 0
  /\ pluginArguments = None

\* A Manager made over some plugin, not yet initialized.
InitManager ==
  /\ pc = "constructed"
  /\ managerInterface_ \in ManagerInterfaces
  /\ entityReferencePrefix_ = None
  /\ logged = <<>>
  /\ probe = None
  /\ out = None
  /\ BatchIdle
  /\ PagerIdle
  /\ ContextIdle

\* Mutant: a prefix set by an earlier initialize stays when the info
\* dictionary has none.
initialize_KeepsEarlierPrefix(entityReferencePrefix, managerInterface) ==
  IF entityReferencePrefixFromInfo(managerInterface.info).prefix = None
    THEN [prefix |-> entityReferencePrefix,
          logged |-> entityReferencePrefixFromInfo(managerInterface.info).logged]
    ELSE entityReferencePrefixFromInfo(managerInterface.info)

\* What Manager::initialize assigns to entityReferencePrefix_, and what it
\* logs, given the plugin as its own initialize has left it.
initialize(entityReferencePrefix, managerInterface) ==
  entityReferencePrefixFromInfo(managerInterface.info)

\* initialize: the plugin is initialized, then asked for its info dictionary.
\* It may be called again, and the dictionary the plugin returns after its
\* own initialize is the plugin's choice.
Initialize ==
  /\ pc \in {"constructed", "initialized"}
  /\ \E info \in InfoDictionaries :
       /\ managerInterface_' = [managerInterface_ EXCEPT !.info = info]
       /\ entityReferencePrefix_' =
            initialize(entityReferencePrefix_, managerInterface_').prefix
       /\ logged' = initialize(entityReferencePrefix_, managerInterface_').logged
  /\ probe' = [managerSettings |-> <<>>]
  /\ out' = Output("initialize", Returned(None, <<"initialize", "info">>))
  /\ pc' = "initialized"
  /\ UNCHANGED <<batchVars, pagerVars, contextVars>>

\* One call of a function of the Manager on a string; none of them logs.
IsEntityReferenceString ==
  /\ pc \in {"constructed", "initialized"}
  /\ \E someString \in Strs :
       /\ probe' = [someString |-> someString]
       /\ out' = Output("isEntityReferenceString",
                        isEntityReferenceString(entityReferencePrefix_, managerInterface_,
                                                someString))
  /\ logged' = <<>>
  /\ UNCHANGED <<pc, batchVars, managerInterface_, entityReferencePrefix_, pagerVars, contextVars>>

CreateEntityReference ==
  /\ pc \in {"constructed", "initialized"}
  /\ \E someString \in Strs :
       /\ probe' = [someString |-> someString]
       /\ out' = Output("createEntityReference",
                        createEntityReference(entityReferencePrefix_, managerInterface_,
                                              someString))
  /\ logged' = <<>>
  /\ UNCHANGED <<pc, batchVars, managerInterface_, entityReferencePrefix_, pagerVars, contextVars>>

CreateEntityReferenceIfValid ==
  /\ pc \in {"constructed", "initialized"}
  /\ \E someString \in Strs :
       /\ probe' = [someString |-> someString]
       /\ out' = Output("createEntityReferenceIfValid",
                        createEntityReferenceIfValid(entityReferencePrefix_,
                                                     managerInterface_, someString))
  /\ logged' = <<>>
  /\ UNCHANGED <<pc, batchVars, managerInterface_, entityReferencePrefix_, pagerVars, contextVars>>

NextManager ==
  \/ Initialize
  \/ IsEntityReferenceString
  \/ CreateEntityReference
  \/ CreateEntityReferenceIfValid

SpecManager == InitManager /\ [][NextManager]_vars

(***************************************************************************)
(* Claims about entity reference strings                                   *)
(***************************************************************************)
\* The Manager function called last.
LastCall(fn) == out # None /\ out.fn = fn

\* s begins with prefix.
StartsWith(s, prefix) ==
  /\ Len(prefix) <= Len(s)
  /\ \A i \in 1 .. Len(prefix) : s[i] = prefix[i]

\* What isEntityReferenceString answers for the string of the last call, in
\* the Manager's present state.
IsReference ==
  isEntityReferenceString(entityReferencePrefix_, managerInterface_,
                          probe.someString).returned[1]

\* C11: createEntityReference(s) returns a reference exactly when
\* isEntityReferenceString(s) is true in the same manager state; the reference
\* returned has the string form s, and when none is returned
\* InputValidationException is raised.
C11_CreateIffIsReference ==
  LastCall("createEntityReference")
    => /\ (out.value.returned # None) <=> IsReference
       /\ out.value.returned # None
            => (out.value.exception = None
                /\ out.value.returned[1].toString = probe.someString)
       /\ out.value.returned = None
            => (out.value.exception # None
                /\ out.value.exception[1].kind = "InputValidationException")

\* C11 witness: with a prefix extracted, a string that does not begin with it
\* was refused.
C11_Witness ==
  /\ LastCall("createEntityReference")
  /\ entityReferencePrefix_ = Some(<<"a">>)
  /\ probe.someString = <<"b", "a">>
  /\ out.value.exception # None

\* C12: with a prefix set, isEntityReferenceString(s) is true exactly when s
\* begins with the prefix, and the plugin's isEntityReferenceString is not
\* called; with no prefix set the plugin is called and its answer returned.
C12_PrefixFastPath ==
  LastCall("isEntityReferenceString")
    => IF entityReferencePrefix_ # None
         THEN /\ out.value.returned[1] = StartsWith(probe.someString,
                                                    entityReferencePrefix_[1])
              /\ out.value.pluginCalled = <<>>
         ELSE /\ out.value.returned[1]
                   = (probe.someString \in managerInterface_.isEntityReferenceString)
              /\ out.value.pluginCalled = <<"isEntityReferenceString">>

\* C12 witness: the prefix answers true for a string the plugin itself would
\* refuse.
C12_Witness ==
  /\ LastCall("isEntityReferenceString")
  /\ entityReferencePrefix_ = Some(<<"a">>)
  /\ probe.someString = <<"a", "b">>
  /\ probe.someString \notin managerInterface_.isEntityReferenceString
  /\ out.value.returned[1]
  /\ out.value.pluginCalled = <<>>

\* C15: createEntityReferenceIfValid(s) never raises; its result is absent
\* exactly when isEntityReferenceString(s) is false, and otherwise is the
\* reference createEntityReference(s) returns, whose string form is s.
C15_IfValidNeverRaises ==
  LastCall("createEntityReferenceIfValid")
    => /\ out.value.exception = None
       /\ out.value.returned # None
       /\ (out.value.returned[1] = None) <=> ~IsReference
       /\ out.value.returned[1] # None
            => /\ out.value.returned[1][1].toString = probe.someString
               /\ out.value.returned[1]
                    = createEntityReference(entityReferencePrefix_, managerInterface_,
                                            probe.someString).returned

\* C15 witness: the plugin refused the string and the result is absent.
C15_Witness ==
  /\ LastCall("createEntityReferenceIfValid")
  /\ entityReferencePrefix_ = None
  /\ probe.someString = <<"a">>
  /\ ~IsReference
  /\ out.value.returned = Some(None)

IsWarning(m) == m.severity = "warning"

PrefixInInfo == kInfoKey_EntityReferencesMatchPrefix \in DOMAIN managerInterface_.info

\* C16: initialize does not raise; when the info dictionary holds a value that
\* is not a string under the prefix key a warning is logged and no prefix is
\* set, when the key is absent no prefix is set and no warning logged, and when
\* the value is a string it becomes the prefix; without a prefix, a later
\* isEntityReferenceString goes to the plugin.
C16_PrefixFromInfo ==
  /\ LastCall("initialize")
       => /\ out.value.exception = None
          /\ IF ~PrefixInInfo
               THEN /\ entityReferencePrefix_ = None
                    /\ \A i \in 1 .. Len(logged) : ~IsWarning(logged[i])
               ELSE IF managerInterface_.info[kInfoKey_EntityReferencesMatchPrefix].type
                         = "Str"
                      THEN entityReferencePrefix_
                             = Some(managerInterface_.info[
                                      kInfoKey_EntityReferencesMatchPrefix].value)
                      ELSE /\ entityReferencePrefix_ = None
                           /\ \E i \in 1 .. Len(logged) : IsWarning(logged[i])
  /\ (/\ pc = "initialized"
      /\ LastCall("isEntityReferenceString")
      /\ PrefixInInfo
      /\ managerInterface_.info[kInfoKey_EntityReferencesMatchPrefix].type # "Str")
       => out.value.pluginCalled = <<"isEntityReferenceString">>

\* C16 witness: initialized over an info dictionary with a number under the
\* prefix key.
C16_Witness ==
  /\ LastCall("initialize")
  /\ PrefixInInfo
  /\ managerInterface_.info[kInfoKey_EntityReferencesMatchPrefix].type = "Int"
  /\ entityReferencePrefix_ = None
  /\ Len(logged) = 1
  /\ IsWarning(logged[1])

(***************************************************************************)
(* EntityReferencePager (EntityReferencePager.hpp): a wrapper over the     *)
(* plugin's EntityReferencePagerInterface.  The bodies of hasNext, get and *)
(* next are not among the sources; they are taken from the documented      *)
(* behaviour: each forwards to pagerInterface_ with hostSession_.           *)
(***************************************************************************)

\* A paging backend: its pages, the page it is at (from 0), and the calls it
\* has received with what it reported for each.
PagerInterface(pages, position, received) ==
  [pages |-> pages, position |-> position, received |-> received]

\* The backends a plugin may hand over: up to MaxN pages of one reference.
PagerInterfaces ==
  {PagerInterface([p \in 1 .. n |-> <<RefAt(p - 1)>>], 0, <<>>) : n \in 0 .. MaxN}

PagerCall(fn, hostSession, returned) ==
  [fn |-> fn, hostSession |-> hostSession, returned |-> returned]

\* The plugin's EntityReferencePagerInterface: hasNext, get, next.
InterfaceHasNext(backend, hostSession) ==
  LET reported == backend.position + 1 < Len(backend.pages)
  IN [returned |-> Some(reported),
      pagerInterface |->
        [backend EXCEPT !.received = Append(@, PagerCall("hasNext", hostSession,
                                                         Some(reported)))]]

InterfaceGet(backend, hostSession) ==
  LET page == IF backend.position < Len(backend.pages)
                THEN backend.pages[backend.position + 1] ELSE <<>>
  IN [returned |-> Some(page),
      pagerInterface |->
        [backend EXCEPT !.received = Append(@, PagerCall("get", hostSession, Some(page)))]]

InterfaceNext(backend, hostSession) ==
  [returned |-> None,
   pagerInterface |->
     [backend EXCEPT !.received = Append(@, PagerCall("next", hostSession, None)),
                     !.position = IF @ < Len(backend.pages) THEN @ + 1 ELSE @]]

\* Mutant: the answer the backend gave for its first page is kept.
hasNext_Memoized(pagerInterface) ==
  [returned |-> Some(1 < Len(pagerInterface.pages)), pagerInterface |-> pagerInterface]

\* EntityReferencePager::hasNext, get, next.
hasNext(pagerInterface) == InterfaceHasNext(pagerInterface, hostSession_)

get(pagerInterface) == InterfaceGet(pagerInterface, hostSession_)

next(pagerInterface) == InterfaceNext(pagerInterface, hostSession_)

\* EntityReferencePager::make over some backend.
InitPager ==
  /\ pc = "pager"
  /\ pagerInterface_ \in PagerInterfaces
  /\ pagerCalls = <<>>
  /\ probe = None
  /\ out = None
  /\ BatchIdle
  /\ ManagerIdle
  /\ ContextIdle

PagerHasNext ==
  /\ pc = "pager"
  /\ Len(pagerCalls) < MaxPagerCalls
  /\ pagerInterface_' = hasNext(pagerInterface_).pagerInterface
  /\ pagerCalls' = Append(pagerCalls, PagerCall("hasNext", hostSession_,
                                                hasNext(pagerInterface_).returned))
  /\ UNCHANGED <<pc, batchVars, probe, out, managerVars, contextVars>>

PagerGet ==
  /\ pc = "pager"
  /\ Len(pagerCalls) < MaxPagerCalls
  /\ pagerInterface_' = get(pagerInterface_).pagerInterface
  /\ pagerCalls' = Append(pagerCalls, PagerCall("get", hostSession_,
                                                get(pagerInterface_).returned))
  /\ UNCHANGED <<pc, batchVars, probe, out, managerVars, contextVars>>

PagerNext ==
  /\ pc = "pager"
  /\ Len(pagerCalls) < MaxPagerCalls
  /\ pagerInterface_' = next(pagerInterface_).pagerInterface
  /\ pagerCalls' = Append(pagerCalls, PagerCall("next", hostSession_,
                                                next(pagerInterface_).returned))
  /\ UNCHANGED <<pc, batchVars, probe, out, managerVars, contextVars>>

NextPager ==
  \/ PagerHasNext
  \/ PagerGet
  \/ PagerNext

SpecPager == InitPager /\ [][NextPager]_vars

\* C13: every call on the pager makes exactly one call of the backend, the
\* same method with the host session, and returns what the backend reported
\* for that very call: the backend has received as many calls as the host
\* made, in the same order, each with the value the host was given.
C13_PagerForwardsEveryCall ==
  pc = "pager"
    => /\ Len(pagerInterface_.received) = Len(pagerCalls)
       /\ \A i \in 1 .. Len(pagerCalls) :
            /\ pagerInterface_.received[i].fn = pagerCalls[i].fn
            /\ pagerInterface_.received[i].hostSession = hostSession_
            /\ pagerInterface_.received[i].returned = pagerCalls[i].returned

\* C13 witness: over two pages, hasNext is true, and after next it is false;
\* the backend was asked both times.
C13_Witness ==
  /\ pc = "pager"
  /\ Len(pagerInterface_.pages) = 2
  /\ Len(pagerCalls) = 3
  /\ pagerCalls[1] = PagerCall("hasNext", hostSession_, Some(TRUE))
  /\ pagerCalls[2].fn = "next"
  /\ pagerCalls[3] = PagerCall("hasNext", hostSession_, Some(FALSE))
  /\ Len(pagerInterface_.received) = 3

(***************************************************************************)
(* Default error policy                                                    *)
(***************************************************************************)
\* What the exception-policy wrapper of the call in progress makes of a
\* callback sequence: its result container and the exception thrown, if any.
RECURSIVE ExceptionPolicyOutcome(_, _)
ExceptionPolicyOutcome(res, cbs) ==
  IF cbs = <<>>
    THEN [result |-> res, exc |-> None]
    ELSE IF Head(cbs).kind = "error"
           THEN [result |-> res,
                 exc |-> Some(IF theCall.impl = "Manager"
                                THEN ManagerErrorCallback(
                                       theCall.op, theCall.arity, entityReferences,
                                       traitsDatas, theCall.traitSet, Head(cbs).index,
                                       Head(cbs).payload)
                                ELSE ConveniencesErrorCallback(
                                       theCall.op, theCall.arity, entityReferences,
                                       theCall.access, Head(cbs).index,
                                       Head(cbs).payload))]
           ELSE ExceptionPolicyOutcome(
                  IF theCall.arity = "plural"
                    THEN PluralExceptionSuccess(res, Head(cbs).index, Head(cbs).payload)
                    ELSE SingularExceptionSuccess(res, Head(cbs).index,
                                                  Head(cbs).payload),
                  Tail(cbs))

\* The outcome of the call in progress had it been made with the explicit
\* exception-policy tag and answered by the same callbacks.
WithExceptionTag ==
  LET initial == InitialResult(theCall.impl, theCall.op, "exception", theCall.arity, N)
      invalid == CallbackFormValidation(theCall.op, entityReferences, traitsDatas)
  IN IF invalid # None
       THEN [result |-> initial, exc |-> invalid]
       ELSE ExceptionPolicyOutcome(initial, calls)

\* C14: a resolve, preflight or register, singular or plural, called without an
\* error-policy tag runs under the exception policy and ends as the same call
\* with the exception-policy tag does
\* for the same callbacks of the plugin: it returns the same value, or throws
\* the same exception (kind, message, index and the rest).
C14_DefaultIsExceptionPolicy ==
  (/\ call # None
   /\ theCall.op \in ManagerOps
   /\ theCall.tag = "default"
   /\ pc \in {"returned", "thrown"})
    => /\ theCall.policy = "exception"
       /\ (pc = "thrown") <=> (WithExceptionTag.exc # None)
       /\ exc = WithExceptionTag.exc
       /\ pc = "returned" => result = WithExceptionTag.result

\* C14 witness: a singular resolve without a tag threw the exception of the
\* plugin's kMalformedEntityReference error.
C14_Witness ==
  /\ call # None
  /\ theCall.op = "resolve"
  /\ theCall.impl = "Manager"
  /\ theCall.arity = "singular"
  /\ theCall.tag = "default"
  /\ pc = "thrown"
  /\ thrown.kind = "MalformedEntityReferenceBatchElementException"
  /\ thrown.message = "Error Message [ref0]"
  /\ thrown.index = 0

\* The kinds C17 places under BatchElementEntityReferenceException.
EntityReferenceKinds ==
  {"InvalidEntityReferenceBatchElementException",
   "MalformedEntityReferenceBatchElementException",
   "EntityResolutionErrorBatchElementException"}

\* C17: the exception thrown for a batch element error is a
\* BatchElementException and an OpenAssetIOException; it is a
\* BatchElementEntityReferenceException exactly when it is of the Invalid or
\* Malformed entity reference or the EntityResolutionError kind; and an
\* InvalidPreflightHint exception is an InvalidTraitsData exception.
C17_ExceptionHierarchy ==
  (pc = "done" /\ out.fn = "throwFromBatchElementError")
    => \A header \in ExceptionHeaders :
         out.value.kind \in Declared(header)
           => /\ IsBaseOf(header, "BatchElementException", out.value.kind)
              /\ IsBaseOf(header, "OpenAssetIOException", out.value.kind)
              /\ (out.value.kind \in EntityReferenceKinds)
                   <=> IsBaseOf(header, "BatchElementEntityReferenceException",
                                out.value.kind)
              /\ out.value.kind = "InvalidPreflightHintBatchElementException"
                   => IsBaseOf(header, "InvalidTraitsDataBatchElementException",
                               out.value.kind)

\* C20: for a code that is none of the enumerated codes,
\* throwFromBatchElementError throws an UnknownBatchElementException that
\* carries the given index and the message "Invalid BatchElementError. Code:
\* <numeric code> Message: <original message>"; it throws that kind and no
\* other, and the code it carries is the one it was given.
C20_InvalidCodeThrowsUnknown ==
  (pc = "done" /\ out.fn = "throwFromBatchElementError"
     /\ probe.error.code \notin ErrorCodes)
    => /\ out.value.kind = "UnknownBatchElementException"
       /\ out.value.index = probe.index
       /\ out.value.message = "Invalid BatchElementError. Code: " \o probe.error.code
                                \o " Message: " \o probe.error.message
       /\ out.value.error.message = out.value.message
       /\ out.value.error.code = probe.error.code
       /\ out.value.entityReference = None
       /\ out.value.traitsData = None
       /\ out.value.traitSet = None

C20_Witness ==
  /\ pc = "done"
  /\ out.fn = "throwFromBatchElementError"
  /\ probe.error = [code |-> InvalidCode, message |-> "Error Message"]
  /\ probe.index = 1
  /\ probe.entityReference # None
  /\ out.value.kind = "UnknownBatchElementException"
  /\ out.value.message = "Invalid BatchElementError. Code: 99 Message: Error Message"

(***************************************************************************)
(* Contexts (Manager::createContext, createChildContext,                   *)
(* persistenceTokenForContext, contextFromPersistenceToken).               *)
(*                                                                         *)
(* A Context holds two shared pointers: locale, to a TraitsData, and       *)
(* managerState, to a state object of the plugin.  A TraitsData pointer is *)
(* an address in traitsDataObjects or None (nullptr); a manager state is   *)
(* named by its value, None being nullptr.  A TraitsData is held as its    *)
(* set of trait ids.                                                       *)
(***************************************************************************)
ManagerStates == {"state1", "state2"}

\* Tokens a plugin serialises a state to; the empty string is one of them.
Tokens == {"", "token"}

\* Trait ids a host imbues a locale with.
LocaleTraits == {"a", "b"}

\* The plugin's four state methods, each a function of its arguments.
ContextManagerInterfaces ==
  [createState : {None, Some("state1")},
   createChildState : [ManagerStates -> {None, Some("state2")}],
   persistenceTokenForState : [ManagerStates -> Tokens],
   stateFromPersistenceToken : [Tokens \ {""} -> {None, Some("state1")}]]

\* Context::make(locale, managerState), both nullptr by default.
Context(locale, managerState) == [locale |-> locale, managerState |-> managerState]

\* The content of the TraitsData a context's locale points to.
Locale(objects, context) == objects[context.locale[1]]

\* createContext: the plugin's new state and a new, empty TraitsData.
createContext(managerInterface, objects) ==
  [context |-> Context(Some(Len(objects) + 1), managerInterface.createState),
   traitsDataObjects |-> Append(objects, {})]

\* Mutant: the child points to the parent's own TraitsData.
createChildContext_SharedLocale(managerInterface, objects, parentContext) ==
  [context |->
     Context(parentContext.locale,
             IF parentContext.managerState # None
               THEN managerInterface.createChildState[parentContext.managerState[1]]
               ELSE None),
   traitsDataObjects |-> objects]

\* createChildContext: a new TraitsData copy-constructed from the parent's,
\* and the plugin's child state when the parent has a state.
createChildContext(managerInterface, objects, parentContext) ==
  [context |->
     Context(Some(Len(objects) + 1),
             IF parentContext.managerState # None
               THEN managerInterface.createChildState[parentContext.managerState[1]]
               ELSE None),
   traitsDataObjects |-> Append(objects, Locale(objects, parentContext))]

persistenceTokenForContext(managerInterface, context) ==
  IF context.managerState # None
    THEN managerInterface.persistenceTokenForState[context.managerState[1]]
    ELSE ""

\* Mutant: the token is ignored and no state is restored.
contextFromPersistenceToken_Fresh(managerInterface, token) ==
  Context(None, None)

contextFromPersistenceToken(managerInterface, token) ==
  Context(None,
          IF token # ""
            THEN managerInterface.stateFromPersistenceToken[token]
            ELSE None)

\* TraitsData::addTrait on the object at an address.
addTrait(objects, address, traitId) ==
  [objects EXCEPT ![address] = @ \cup {traitId}]

\* A Manager over some plugin; the host holds no context yet.
InitContext ==
  /\ pc = "contexts"
  /\ managerInterface_ \in ContextManagerInterfaces
  /\ entityReferencePrefix_ = None
  /\ logged = <<>>
  /\ contexts = <<>>
  /\ traitsDataObjects = <<>>
  /\ probe = None
  /\ out = None
  /\ BatchIdle
  /\ PagerIdle

CreateContext ==
  /\ pc = "contexts"
  /\ Len(contexts) < MaxContexts
  /\ LET made == createContext(managerInterface_, traitsDataObjects)
     IN /\ contexts' = Append(contexts, made.context)
        /\ traitsDataObjects' = made.traitsDataObjects
  /\ out' = Output("createContext", [context |-> Len(contexts) + 1])
  /\ UNCHANGED <<pc, batchVars, probe, managerVars, pagerVars>>

\* The parent is a context that has a locale: TraitsData::make copies the
\* object the parent's pointer refers to.
CreateChildContext ==
  /\ pc = "contexts"
  /\ Len(contexts) < MaxContexts
  /\ \E parent \in DOMAIN contexts :
       /\ contexts[parent].locale # None
       /\ LET made == createChildContext(managerInterface_, traitsDataObjects,
                                         contexts[parent])
          IN /\ contexts' = Append(contexts, made.context)
             /\ traitsDataObjects' = made.traitsDataObjects
       /\ out' = Output("createChildContext",
                        [parentContext |-> parent, context |-> Len(contexts) + 1])
  /\ UNCHANGED <<pc, batchVars, probe, managerVars, pagerVars>>

PersistenceTokenForContext ==
  /\ pc = "contexts"
  /\ \E context \in DOMAIN contexts :
       out' = Output("persistenceTokenForContext",
                     [context |-> context,
                      token |-> persistenceTokenForContext(managerInterface_,
                                                           contexts[context])])
  /\ UNCHANGED <<pc, batchVars, probe, managerVars, pagerVars, contextVars>>

\* The host passes a string it holds: a token it was given, or any other.
ContextFromPersistenceToken ==
  /\ pc = "contexts"
  /\ Len(contexts) < MaxContexts
  /\ \E token \in Tokens :
       /\ contexts' = Append(contexts,
                             contextFromPersistenceToken(managerInterface_, token))
       /\ out' = Output("contextFromPersistenceToken",
                        [token |-> token, context |-> Len(contexts) + 1])
  /\ UNCHANGED <<pc, batchVars, probe, managerVars, pagerVars, traitsDataObjects>>

\* The host changes a context's locale in place: context->locale->addTrait(id).
AddLocaleTrait ==
  /\ pc = "contexts"
  /\ \E context \in DOMAIN contexts, traitId \in LocaleTraits :
       /\ contexts[context].locale # None
       /\ traitsDataObjects' = addTrait(traitsDataObjects, contexts[context].locale[1],
                                        traitId)
       /\ out' = Output("addTrait", [context |-> context, traitId |-> traitId])
  /\ UNCHANGED <<pc, batchVars, probe, managerVars, pagerVars, contexts>>

NextContext ==
  \/ CreateContext
  \/ CreateChildContext
  \/ PersistenceTokenForContext
  \/ ContextFromPersistenceToken
  \/ AddLocaleTrait

SpecContext == InitContext /\ [][NextContext]_vars

\* The context the last call returned, and whether that call was fn.
Returns(fn) == pc = "contexts" /\ out # None /\ out.fn = fn
ReturnedContext == contexts[out.value.context]

\* The contexts whose token is the one contextFromPersistenceToken was given.
TokenSources ==
  {original \in 1 .. (out.value.context - 1) :
     persistenceTokenForContext(managerInterface_, contexts[original]) = out.value.token}

\* C18 (as stated): for every context, the context made from its persistence
\* token has a manager state exactly when the original has one, and that
\* state is the one the plugin restores from the token.
C18_RoundTripKeepsState ==
  Returns("contextFromPersistenceToken")
    => \A original \in TokenSources :
         /\ (ReturnedContext.managerState # None)
              <=> (contexts[original].managerState # None)
         /\ ReturnedContext.managerState # None
              => ReturnedContext.managerState
                   = managerInterface_.stateFromPersistenceToken[out.value.token]

\* C18 (amended): the context made from a context's persistence token has a
\* manager state exactly when the original has one, the plugin's token for it
\* is not empty and the plugin restores a state from that token; the state is
\* then the one the plugin restores from the token.  For an empty token the
\* plugin is not asked and the context has no state.
C18_RoundTripOfNonEmptyToken ==
  Returns("contextFromPersistenceToken")
    => \A original \in TokenSources :
         /\ (ReturnedContext.managerState # None)
              <=> /\ contexts[original].managerState # None
                  /\ out.value.token # ""
                  /\ managerInterface_.stateFromPersistenceToken[out.value.token] # None
         /\ out.value.token # ""
              => ReturnedContext.managerState
                   = managerInterface_.stateFromPersistenceToken[out.value.token]
         /\ out.value.token = "" => ReturnedContext.managerState = None
         /\ ReturnedContext.locale = None

C18_Witness ==
  /\ Returns("contextFromPersistenceToken")
  /\ out.value.context = 2
  /\ 1 \in TokenSources
  /\ contexts[1].managerState = Some("state1")
  /\ out.value.token = "token"
  /\ ReturnedContext.managerState = Some("state1")

KindsWithEntityReference ==
  {"InvalidEntityReferenceBatchElementException",
   "MalformedEntityReferenceBatchElementException",
   "EntityResolutionErrorBatchElementException",
   "EntityAccessErrorBatchElementException",
   "InvalidTraitsDataBatchElementException",
   "InvalidPreflightHintBatchElementException",
   "InvalidTraitSetBatchElementException"}

KindsWithTraitsData ==
  {"InvalidTraitsDataBatchElementException", "InvalidPreflightHintBatchElementException"}

\* TraitsData::traitSet() of the traits data at a position of the host's list.
TraitSetOf(traitsData) == {traitsData \o ".trait"}

C22_TraitSetOfTraitsData ==
  (ElementThrown({"preflight", "register"}) /\ ThrownFor.payload.code = "kInvalidTraitSet")
    => /\ thrown.kind = "InvalidTraitSetBatchElementException"
       /\ thrown.traitSet # None
       /\ thrown.traitSet
            = Some(TraitSetOf(IF theCall.arity = "plural"
                                THEN traitsDatas[ThrownFor.index]
                                ELSE traitsDatas[0]))

(***************************************************************************)
(* Singular and plural forms                                               *)
(***************************************************************************)
\* What the plural wrapper of the call's operation and policy makes of the
\* call's inputs taken as one-element lists and of the one callback the plugin
\* invoked: its result container and the exception thrown, if any.
PluralOnOneElement ==
  LET initial == InitialResult(theCall.impl, theCall.op, theCall.policy, "plural", 1)
      cb == calls[1]
  IN CASE theCall.policy = "exception" /\ cb.kind = "error" ->
            [result |-> initial,
             exc |-> Some(IF theCall.impl = "Manager"
                            THEN ManagerErrorCallback(
                                   theCall.op, "plural", entityReferences, traitsDatas,
                                   theCall.traitSet, cb.index, cb.payload)
                            ELSE ConveniencesErrorCallback(
                                   theCall.op, "plural", entityReferences, theCall.access,
                                   cb.index, cb.payload))]
       [] theCall.policy = "exception" /\ cb.kind = "success" ->
            [result |-> PluralExceptionSuccess(initial, cb.index, cb.payload),
             exc |-> None]
       [] theCall.policy = "variant" /\ cb.kind = "error" ->
            [result |-> PluralVariantError(initial, cb.index, cb.payload), exc |-> None]
       [] theCall.policy = "variant" /\ cb.kind = "success" ->
            [result |-> PluralVariantSuccess(initial, cb.index, cb.payload), exc |-> None]

\* A singular call that has ended after the plugin invoked exactly one
\* callback, for index 0.
SingularEndedAfterOneCallback ==
  /\ call # None
  /\ theCall.arity = "singular"
  /\ theCall.policy \in {"exception", "variant"}
  /\ pc \in {"returned", "thrown"}
  /\ Len(calls) = 1
  /\ calls[1].index = 0

\* C23: a singular exception-policy or variant-policy call that the plugin
\* answered with exactly one callback for index 0 ends as the plural form
\* applied to the one-element list does: it throws exactly when the plural
\* form throws, the same exception (kind, message, index 0 and the rest), and
\* otherwise returns element 0 of what the plural form returns.
C23_SingularIsPluralOfOne ==
  SingularEndedAfterOneCallback
    => /\ (pc = "thrown") <=> (PluralOnOneElement.exc # None)
       /\ exc = PluralOnOneElement.exc
       /\ pc = "returned"
            => /\ DOMAIN PluralOnOneElement.result = {0}
               /\ result = PluralOnOneElement.result[0]

\* C23 witness: a singular exception-policy resolve that returned the value
\* the plugin delivered.
C23_Witness ==
  /\ SingularEndedAfterOneCallback
  /\ theCall.op = "resolve"
  /\ theCall.impl = "Manager"
  /\ theCall.policy = "exception"
  /\ pc = "returned"
  /\ calls[1] = Callback("success", 0, "valB")
  /\ result = "valB"

(***************************************************************************)
(* Callback forms                                                          *)
(***************************************************************************)
\* C24: a call of the callback form of entityExists, resolve,
\* defaultEntityReference, getWithRelationship(s), preflight or register that
\* passes validation has invoked the plugin's method of the same name exactly
\* once, with the host's lists as they were given, element for element, and
\* the host session; and the callbacks that reached the host's callbacks are
\* the callbacks the plugin invoked, with the same indices and values in the
\* same order, none added, dropped or repeated.
C24_CallbackFormPassThrough ==
  (/\ call # None
   /\ theCall.policy = "callback"
   /\ CallbackFormValidation(theCall.op, entityReferences, traitsDatas) = None)
    => /\ theCall.op \in CallbackOps
       /\ pluginCalls = 1
       /\ pluginArguments # None
       /\ pluginArguments[1].method = theCall.op
       /\ pluginArguments[1].hostSession = hostSession_
       /\ DOMAIN pluginArguments[1].entityReferences = DOMAIN entityReferences
       /\ \A i \in DOMAIN entityReferences :
            pluginArguments[1].entityReferences[i] = entityReferences[i]
       /\ DOMAIN pluginArguments[1].traitsDatas = DOMAIN traitsDatas
       /\ \A i \in DOMAIN traitsDatas :
            pluginArguments[1].traitsDatas[i] = traitsDatas[i]
       /\ theCall.op # "entityExists" => pluginArguments[1].access = Some(theCall.access)
       /\ theCall.op = "resolve" => pluginArguments[1].traitSet = Some(theCall.traitSet)
       /\ forwarded = calls
       /\ exc = None

\* C24 witness: the callback form of getWithRelationship over two references;
\* the plugin answered index 1 with an error and then index 1 again, with a
\* value, and both reached the host.
C24_Witness ==
  /\ IsForm({"getWithRelationship"}, "callback", "plural")
  /\ pc = "returned"
  /\ N = 2
  /\ Len(calls) = 2
  /\ calls[1].kind = "error"
  /\ calls[1].index = 1
  /\ calls[2] = Callback("success", 1, "valA")
  /\ forwarded = calls
  /\ pluginArguments[1].entityReferences = EntityReferences(2)


(***************************************************************************)
(* C25: the Python exception translators map every C++ exception of the    *)
(* taxonomy to the Python class named as the most derived type of the      *)
(* thrown exception (derived catch clauses come before their bases), and   *)
(* the Python exception carries the same message, index and error.  The   *)
(* translator of part_008 builds the Python exception from (index, error), *)
(* so its message is error.message and not the message of the C++          *)
(* exception.                                                              *)
(***************************************************************************)
C25_TranslationKeepsTypeAndMessage ==
  (pc = "done" /\ out.fn = "translateException") =>
    /\ out.value.python.name = out.value.thrown.kind
    /\ out.value.python.message = out.value.thrown.message
    /\ "index" \in DOMAIN out.value.thrown =>
         /\ out.value.python.index = out.value.thrown.index
         /\ out.value.python.error = out.value.thrown.error

(***************************************************************************)
(* C26: the length check of preflight and register applies under every     *)
(* policy.  Every wrapper of either implementation, exception or variant,  *)
(* calls the callback form, so a call whose two lists differ in length     *)
(* ends with InputValidationException and never with per-element errors:   *)
(* the plugin is not invoked, no callback has run and the result container *)
(* is as it was sized.  A singular form always passes two lists of one     *)
(* element, so only the plural forms can be given lists that differ.       *)
(***************************************************************************)
C26_LengthCheckUnderEveryPolicy ==
  (call # None /\ theCall.op \in {"preflight", "register"}) =>
    /\ theCall.arity = "singular" =>
         Size(entityReferences) = 1 /\ Size(traitsDatas) = 1
    /\ Size(entityReferences) # Size(traitsDatas) =>
         /\ pc = "thrown"
         /\ exc # None
         /\ thrown.kind = "InputValidationException"
         /\ pluginCalls = 0
         /\ pluginArguments = None
         /\ calls = <<>>
         /\ result = InitialResult(theCall.impl, theCall.op, theCall.policy,
                                   theCall.arity, Size(entityReferences))

\* C26 witness: the plural variant form of register was given two entity
\* references and one traits data, and has thrown.
C26_Witness ==
  /\ pc = "thrown"
  /\ IsForm({"register"}, "variant", "plural")
  /\ Size(entityReferences) = 2
  /\ Size(traitsDatas) = 1
  /\ thrown.kind = "InputValidationException"
  /\ pluginCalls = 0

(***************************************************************************)
(* C27: in every plural variant-policy wrapper, a slot whose index has     *)
(* received no callback never presents as a success value: it holds the    *)
(* BatchElementError alternative.  The plural variant getWithRelationship  *)
(* of ManagerConveniences.cpp sizes its result with resize(n, nullptr),    *)
(* which fills the slots with the pager alternative holding a null pager.  *)
(***************************************************************************)
C27_UncalledSlotIsError ==
  (IsForm(ConvenienceOps, "variant", "plural") /\ pc \in {"plugin", "returned"}) =>
    \A i \in Pending : result[i].alt = "error"

(***************************************************************************)
(* C28: after any sequence of initialize calls the prefix fast path        *)
(* reflects the most recent initialize only.  Each initialize sets the     *)
(* prefix to what the info dictionary it read holds under the prefix key   *)
(* as a string, and to none otherwise, whatever an earlier initialize set; *)
(* before the first initialize no prefix is set; no other operation        *)
(* changes the prefix; and with no prefix set isEntityReferenceString asks *)
(* the plugin.                                                             *)
(***************************************************************************)
C28_PrefixFollowsLatestInitialize ==
  [][/\ pc = "constructed" => entityReferencePrefix_ = None
     /\ out'.fn = "initialize" =>
          entityReferencePrefix_' =
            entityReferencePrefixFromInfo(managerInterface_'.info).prefix
     /\ out'.fn # "initialize" =>
          /\ entityReferencePrefix_' = entityReferencePrefix_
          /\ managerInterface_' = managerInterface_
     /\ (out'.fn = "isEntityReferenceString"
         /\ entityReferencePrefixFromInfo(managerInterface_.info).prefix = None) =>
          /\ out'.value.pluginCalled = <<"isEntityReferenceString">>
          /\ out'.value.returned[1] =
               (probe'.someString \in managerInterface_.isEntityReferenceString)]_vars

\* C28 witness: the dictionary the latest initialize read holds a value that
\* is no string under the prefix key, no prefix is set, and
\* isEntityReferenceString has asked the plugin, which answered true.
C28_Witness ==
  /\ pc = "initialized"
  /\ LastCall("isEntityReferenceString")
  /\ kInfoKey_EntityReferencesMatchPrefix \in DOMAIN managerInterface_.info
  /\ managerInterface_.info[kInfoKey_EntityReferencesMatchPrefix].type # "Str"
  /\ entityReferencePrefix_ = None
  /\ out.value.pluginCalled = <<"isEntityReferenceString">>
  /\ out.value.returned[1]

(***************************************************************************)
(* Paged relationship queries (Manager.cpp): getWithRelationshipPaged and  *)
(* getWithRelationshipsPaged check the page size, then call the plugin    *)
(* with the host's error callback and with a success callback that wraps   *)
(* the plugin's pager interface in an EntityReferencePager.                *)
(***************************************************************************)
PagedOps == {"getWithRelationshipPaged", "getWithRelationshipsPaged"}

\* <<number of entity references, number of relationship traits datas>>.
PagedShapes(op) ==
  IF op = "getWithRelationshipPaged"
    THEN {<<n, 1>> : n \in 0 .. MaxN}
    ELSE {<<1, k>> : k \in 0 .. MaxN}

\* Mutant: a page size of zero is left to the plugin.
pagedValidation_None(pageSize) == None

\* if (pageSize == 0) throw
pagedValidation(pageSize) ==
  IF pageSize = 0
    THEN Some(InputValidationException("pageSize must be greater than zero."))
    ELSE None

\* hostApi::EntityReferencePager::make(pagerInterface, hostSession)
EntityReferencePager(pagerInterface, hostSession) ==
  [pagerInterface |-> pagerInterface, hostSession |-> hostSession]

\* What the plugin's success callback passes on to the host's.
convertingPagerSuccessCallback(idx, pagerInterface) ==
  Callback("success", idx, EntityReferencePager(pagerInterface, hostSession_))

\* What managerInterface_ is called with by a paged form.
PagedPluginArguments(op, entityRefs, datas, traitSet, pageSize, access) ==
  [method |-> op,
   entityReferences |-> entityRefs,
   traitsDatas |-> datas,
   traitSet |-> Some(traitSet),
   pageSize |-> pageSize,
   access |-> Some(access),
   hostSession |-> hostSession_]

PagedHostCall ==
  /\ pc = "idle"
  /\ \E op \in PagedOps, access \in Accesses, pageSize \in 0 .. MaxPageSize :
       \E shape \in PagedShapes(op) :
         LET refs == EntityReferences(shape[1])
             datas == TraitsDatas(shape[2])
             invalid == pagedValidation(pageSize)
         IN /\ call' = Some([impl |-> "Manager", op |-> op, tag |-> "callback",
                             policy |-> "callback", arity |-> "plural",
                             access |-> access, traitSet |-> RequestedTraitSet,
                             pageSize |-> pageSize])
            /\ entityReferences' = refs
            /\ traitsDatas' = datas
            /\ result' = None
            /\ exc' = invalid
            /\ pc' = IF invalid # None THEN "thrown" ELSE "plugin"
            /\ pluginCalls' = IF invalid # None THEN 0 ELSE 1
            /\ pluginArguments' =
                 IF invalid # None
                   THEN None
                   ELSE Some(PagedPluginArguments(op, refs, datas, RequestedTraitSet,
                                                  pageSize, access))
  /\ calls' = <<>>
  /\ forwarded' = <<>>
  /\ UNCHANGED <<probe, out, serviceVars>>

\* The plugin invokes the converting success callback with a pager interface.
PagedSuccess ==
  /\ InPlugin("callback")
  /\ theCall.op \in PagedOps
  /\ \E i \in Callable, pagerInterface \in PagerInterfaces :
       /\ calls' = Append(calls, Callback("success", i, pagerInterface))
       /\ forwarded' = Append(forwarded, convertingPagerSuccessCallback(i, pagerInterface))
  /\ UNCHANGED <<pc, call, entityReferences, traitsDatas, result, exc, pluginCalls,
                 pluginArguments, probe, out, serviceVars>>

\* The plugin holds the host's own error callback.
PagedError ==
  /\ InPlugin("callback")
  /\ theCall.op \in PagedOps
  /\ \E i \in Callable, e \in PluginErrors :
       /\ calls' = Append(calls, Callback("error", i, e))
       /\ forwarded' = Append(forwarded, Callback("error", i, e))
  /\ UNCHANGED <<pc, call, entityReferences, traitsDatas, result, exc, pluginCalls,
                 pluginArguments, probe, out, serviceVars>>

NextPaged ==
  \/ PagedHostCall
  \/ PagedSuccess
  \/ PagedError
  \/ PluginReturn

SpecPaged == Init /\ [][NextPaged]_vars

(***************************************************************************)
(* C29: getWithRelationshipPaged and getWithRelationshipsPaged raise       *)
(* InputValidationException when pageSize is 0, before the plugin is       *)
(* invoked: no plugin call, no callback.  For pageSize > 0 every success   *)
(* callback of the plugin reaches the host's success callback exactly      *)
(* once, with the same index and a pager that wraps the pager interface    *)
(* the plugin passed, and every error callback reaches the host's as it is.*)
(***************************************************************************)
C29_PagedForms ==
  (call # None /\ theCall.op \in PagedOps) =>
    /\ theCall.pageSize = 0 =>
         /\ pc = "thrown"
         /\ exc # None
         /\ thrown = InputValidationException("pageSize must be greater than zero.")
         /\ pluginCalls = 0
         /\ pluginArguments = None
         /\ calls = <<>>
         /\ forwarded = <<>>
    /\ theCall.pageSize > 0 =>
         /\ pc \in {"plugin", "returned"}
         /\ exc = None
         /\ pluginCalls = 1
         /\ pluginArguments[1].pageSize = theCall.pageSize
         /\ Len(forwarded) = Len(calls)
         /\ \A j \in 1 .. Len(calls) :
              /\ forwarded[j].kind = calls[j].kind
              /\ forwarded[j].index = calls[j].index
              /\ calls[j].kind = "success" =>
                   /\ forwarded[j].payload.pagerInterface = calls[j].payload
                   /\ forwarded[j].payload.hostSession = hostSession_
              /\ calls[j].kind = "error" => forwarded[j].payload = calls[j].payload

\* C29 witness: getWithRelationshipPaged over two entity references with a
\* positive page size; the plugin reported an error for index 0 and then a
\* pager interface with pages for index 1, and the host has received the
\* pager made of it.
C29_Witness ==
  /\ pc = "returned"
  /\ call # None
  /\ theCall.op = "getWithRelationshipPaged"
  /\ theCall.pageSize = MaxPageSize
  /\ Size(entityReferences) = 2
  /\ Len(calls) = 2
  /\ calls[1].kind = "error" /\ calls[1].index = 0
  /\ calls[2].kind = "success" /\ calls[2].index = 1
  /\ Len(calls[2].payload.pages) > 0
  /\ forwarded[2] = Callback("success", 1,
                             EntityReferencePager(calls[2].payload, hostSession_))

(***************************************************************************)
(* C30: in the plural exception-policy and variant-policy wrappers a       *)
(* callback invoked with index i in [0, N) changes result slot i only:     *)
(* every other slot keeps its content, and the result sequence has length  *)
(* N from the moment it is sized to the end of the call.                   *)
(***************************************************************************)
C30_CallbackChangesOwnSlotOnly ==
  [][(/\ call' # None
      /\ call'[1].policy \in {"exception", "variant"}
      /\ call'[1].arity = "plural"
      /\ CallbackFormValidation(call'[1].op, entityReferences', traitsDatas') = None) =>
       /\ DOMAIN result' =
            0 .. (BatchSize(call'[1].op, entityReferences', traitsDatas') - 1)
       /\ Len(calls') = Len(calls) + 1 =>
            /\ DOMAIN result' = DOMAIN result
            /\ calls'[Len(calls')].index \in DOMAIN result
            /\ \A j \in DOMAIN result \ {calls'[Len(calls')].index} :
                 result'[j] = result[j]]_vars

\* C30 witness: a plural variant resolve of two references in which the
\* plugin reported an error for index 1 and then a value for index 0; each
\* slot holds what its own callback stored.
C30_Witness ==
  /\ IsForm({"resolve"}, "variant", "plural")
  /\ Size(entityReferences) = 2
  /\ Len(calls) = 2
  /\ calls[1].kind = "error" /\ calls[1].index = 1
  /\ calls[2].kind = "success" /\ calls[2].index = 0
  /\ result[0] = Ok(calls[2].payload)
  /\ result[1] = Err(calls[1].payload)

====
